---------------------------- MODULE Spec2Model ----------------------------
(***************************************************************************)
(* A model of the ribbon-offset effect of PneumaticGateInkscape:           *)
(*   src/pneurouter.py              offsets + Bezier fillets               *)
(*   src/pneurouter_offset_only.py  the same effect without fillets        *)
(* and of the path reader of the layer parser:                             *)
(*   src/svg_layer_parser.py        SvgLayerParser._points_from_path       *)
(*                                                                         *)
(* Numbers.  The program computes with Python floats.  The model computes  *)
(* with fixed-point integers: the integer v stands for the real v / Scale. *)
(* The inputs are rectilinear polylines on an integer grid that never      *)
(* double back on themselves; on them every hypot, every division and      *)
(* every line intersection of the program is exact in the model.  The one  *)
(* rounded quantity is the Bezier constant k (an irrational number) and    *)
(* the two control points computed from it.                                *)
(*                                                                         *)
(* Angles.  math.acos is strictly decreasing on [-1, 1], so an angle is    *)
(* modelled by its cosine: angle_between returns the clamped dot product,  *)
(* and each comparison of an angle is the mirrored comparison of cosines.  *)
(***************************************************************************)
EXTENDS Integers, Sequences, FiniteSets

VARIABLES
    variant,     \* which script runs: "fillet" (pneurouter.py) or "offset_only"
    selCount,    \* len(self.svg.selection)
    isPath,      \* isinstance(elem, PathElement)
    cmds,        \* elem.path.to_absolute(): sequence of [letter, x, y]
    transform,   \* elem.composed_transform(): a translation <<tx, ty>>
    width,       \* self.options.width
    fillet,      \* self.options.fillet
    pc,          \* position of the run inside effect()
    closed,      \* last command is Z
    pts,         \* extracted, transformed points
    half_w,
    outer_r,
    inner_r,
    dirs,        \* unit direction per edge
    norms,       \* unit left normal per edge
    left_pts,    \* offset polyline, +normal side
    right_pts,   \* offset polyline, -normal side
    left_loop,   \* fillet commands of the left side
    right_loop,  \* fillet commands of the right side
    parent,      \* paths added to elem.getparent(), in order
    msgs,        \* messages passed to inkex.errormsg, in order
    failure,     \* uncaught exception that ended the run, or "none"
    abs_path,    \* _points_from_path: path.to_absolute(), [letter, args]
    path_tf,     \* _points_from_path: the transform argument, <<tx, ty>>
    cmd_pos,     \* number of commands of abs_path the loop has processed
    points,      \* the points collected so far
    current,     \* the reader's pen position
    result,      \* the list _points_from_path returned
    ppc          \* position of the call: "idle", "loop" or "returned"

inputs == <<variant, selCount, isPath, cmds, transform, width, fillet>>
locals == <<closed, pts, half_w, outer_r, inner_r, dirs, norms,
            left_pts, right_pts, left_loop, right_loop>>
parser == <<abs_path, path_tf, cmd_pos, points, current, result, ppc>>
vars == <<inputs, pc, locals, parent, msgs, failure, parser>>

-----------------------------------------------------------------------------
(* Bounds of the model *)

MaxPts == 4      \* longest point sequence
GridMax == 2     \* largest grid coordinate of an input point
MaxWidth == 2    \* largest total ribbon width

-----------------------------------------------------------------------------
(* Fixed-point arithmetic *)

Scale == 1000

Abs(x) == IF x < 0 THEN -x ELSE x
Min(a, b) == IF a <= b THEN a ELSE b
Max(a, b) == IF a >= b THEN a ELSE b
Sgn(x) == IF x < 0 THEN -1 ELSE 1

\* a * b and a / b on fixed-point values, rounded toward zero
Mul(a, b) == Sgn(a) * Sgn(b) * ((Abs(a) * Abs(b)) \div Scale)
Div(a, b) == Sgn(a) * Sgn(b) * ((Abs(a) * Scale) \div Abs(b))

RECURSIVE SqrtSearch(_, _, _)
SqrtSearch(n, lo, hi) ==
    IF lo >= hi THEN lo
    ELSE LET mid == (lo + hi + 1) \div 2
         IN  IF mid * mid <= n THEN SqrtSearch(n, mid, hi)
                               ELSE SqrtSearch(n, lo, mid - 1)

\* floor of the square root of n
ISqrt(n) == SqrtSearch(n, 0, 46340)

\* math.hypot(dx, dy)
Hypot(dx, dy) == ISqrt(dx * dx + dy * dy)

-----------------------------------------------------------------------------
(* Program constants *)

EpsParallelInv == 1000000   \* 1 / 1e-6, the near-parallel threshold of intersect
EpsAngleInv == 1000         \* 1 / 1e-3, the degenerate-angle threshold

MsgSelect == "Please select exactly one path."
MsgNotPath == "Selected element is not a path."
\* f"Unsupported path command: only straight segments allowed, line type = {cmd.letter}"
MsgUnsupported(letter) ==
    "Unsupported path command: only straight segments allowed, line type = "
        \o letter
MsgTooFew == "Path must have at least two points."
\* "Zero" and "length" are joined by the character U+2010 (HYPHEN), not by
\* the ASCII hyphen-minus.  A string of the module holds ASCII only, so the
\* message is written as Python's message.encode("unicode_escape") gives it:
\* the six characters \u2010 stand for the one character U+2010.
MsgZeroLength == "Zero\\u2010length segment detected."
MsgRibbonCmds == "ribbon_cmds"   \* the dump of the open ribbon's command list

-----------------------------------------------------------------------------
(* Inputs *)

Grid == 0 .. GridMax

\* one more point of a rectilinear polyline: same x or same y as the last one
\* (a repeated point, i.e. a zero-length edge, included)
RectilinearSteps(p) ==
    {q \in Grid \X Grid : q[1] = p[1] \/ q[2] = p[2]}

\* the polylines of n grid points that start at the grid's origin (the
\* translation of the element's transform moves them elsewhere)
RECURSIVE Polylines(_)
Polylines(n) ==
    IF n = 0 THEN {<< >>}
    ELSE IF n = 1 THEN {<< <<0, 0>> >>}
    ELSE UNION {{Append(s, q) : q \in RectilinearSteps(s[Len(s)])} :
                    s \in Polylines(n - 1)}

\* the edge leaving vertex i of poly (the wrap-around edge for the last one)
EdgeFrom(poly, i) ==
    LET j == (i % Len(poly)) + 1
    IN  <<poly[j][1] - poly[i][1], poly[j][2] - poly[i][2]>>

\* the path doubles back at the vertex between edges e and f
Reverses(e, f) == e[1] * f[1] + e[2] * f[2] < 0

\* The polylines the model is exact on: every edge (the wrap-around edge of
\* a closed path too) is parallel to an axis, and no vertex is a reversal.
\* A closed path that ends where it starts may reverse: its run ends at the
\* zero-length wrap-around edge, before any offset vertex is computed.
InDomain(poly, isClosed) ==
    LET n == Len(poly)
    IN  /\ isClosed /\ n >= 1 =>
              (poly[n][1] = poly[1][1] \/ poly[n][2] = poly[1][2])
        /\ \/ isClosed /\ n >= 1 /\ EdgeFrom(poly, n) = <<0, 0>>
           \/ /\ \A i \in 2 .. n - 1 :
                     ~Reverses(EdgeFrom(poly, i - 1), EdgeFrom(poly, i))
              /\ isClosed /\ n >= 2 =>
                     /\ ~Reverses(EdgeFrom(poly, n), EdgeFrom(poly, 1))
                     /\ ~Reverses(EdgeFrom(poly, n - 1), EdgeFrom(poly, n))

\* the absolute path of a polyline: M, L, ..., L and then nothing (open),
\* Z (closed) or a C or H command (which the effect does not support)
PathOf(poly, tail) ==
    LET body == [i \in 1 .. Len(poly) |->
                    [letter |-> IF i = 1 THEN "M" ELSE "L",
                     x |-> poly[i][1] * Scale, y |-> poly[i][2] * Scale]]
    IN  IF tail = "open" THEN body
        ELSE body \o <<[letter |-> tail, x |-> 0, y |-> 0]>>

Tails == {"open", "Z", "C", "H"}
Fillets == {Scale \div 4, Scale \div 2, (6 * Scale) \div 10, 2 * Scale}
Widths == {w * Scale : w \in 1 .. MaxWidth}
Translations == {<<0, 0>>, <<Scale, -Scale>>}
Variants == {"fillet", "offset_only"}

\* no call of _points_from_path is under way
ParserIdle ==
    /\ abs_path = << >>
    /\ path_tf = <<0, 0>>
    /\ cmd_pos = 0
    /\ points = << >>
    /\ current = <<0, 0>>
    /\ result = << >>
    /\ ppc = "idle"

Init ==
    /\ variant \in Variants
    /\ \/ selCount = 1 /\ isPath = TRUE
       \/ selCount \in {0, 2} /\ isPath = TRUE /\ variant = "fillet"
       \/ selCount = 1 /\ isPath = FALSE /\ variant = "fillet"
    /\ \E n \in 0 .. MaxPts : \E poly \in Polylines(n) : \E tail \in Tails :
          /\ InDomain(poly, tail = "Z")
          /\ selCount # 1 \/ ~isPath => n = 2 /\ tail = "open"
          /\ cmds = PathOf(poly, tail)
    /\ transform \in Translations
    /\ width \in Widths
    /\ fillet \in Fillets
    \* pneurouter_offset_only.py draws no fillet: it runs with the default
    /\ variant = "offset_only" => fillet = (6 * Scale) \div 10
    /\ selCount # 1 \/ ~isPath =>
          /\ transform = <<0, 0>>
          /\ width = Scale
          /\ fillet = Scale \div 4
    /\ pc = "start"
    /\ closed = FALSE
    /\ pts = << >>
    /\ half_w = 0
    /\ outer_r = 0
    /\ inner_r = 0
    /\ dirs = << >>
    /\ norms = << >>
    /\ left_pts = << >>
    /\ right_pts = << >>
    /\ left_loop = << >>
    /\ right_loop = << >>
    /\ parent = << >>
    /\ msgs = << >>
    /\ failure = "none"
    /\ ParserIdle

-----------------------------------------------------------------------------
(* effect(): selection checks and the closed flag *)

CheckSelection ==
    /\ pc = "start"
    /\ IF selCount # 1
       THEN /\ msgs' = Append(msgs, MsgSelect)
            /\ pc' = "done"
            /\ UNCHANGED <<closed, failure>>
       ELSE IF ~isPath
       THEN /\ msgs' = Append(msgs, MsgNotPath)
            /\ pc' = "done"
            /\ UNCHANGED <<closed, failure>>
       ELSE IF cmds = << >>
       THEN \* raw_path.to_absolute()[-1] of an empty path
            /\ failure' = "IndexError"
            /\ pc' = "done"
            /\ UNCHANGED <<closed, msgs>>
       ELSE /\ closed' = (cmds[Len(cmds)].letter = "Z")
            /\ pc' = "extract"
            /\ UNCHANGED <<msgs, failure>>
    /\ UNCHANGED <<inputs, pts, half_w, outer_r, inner_r, dirs, norms,
                   left_pts, right_pts, left_loop, right_loop, parent>>
    /\ UNCHANGED parser

-----------------------------------------------------------------------------
(* effect(): point extraction *)

Supported(c) == c.letter \in {"M", "L", "Z"}

\* transform.apply_to_point((x, y))
ApplyToPoint(t, x, y) == <<x + t[1], y + t[2]>>

\* the points of the M and L commands among the first k commands
RECURSIVE PointsOf(_, _, _)
PointsOf(cs, t, k) ==
    IF k = 0 THEN << >>
    ELSE IF cs[k].letter \in {"M", "L"}
         THEN Append(PointsOf(cs, t, k - 1), ApplyToPoint(t, cs[k].x, cs[k].y))
         ELSE PointsOf(cs, t, k - 1)

\* a slip in the length check: a single point passes
TooFewPoints_OffByOne(p) == Len(p) < 1

\* len(pts) < 2
TooFewPoints(p) == Len(p) < 2

ExtractPoints ==
    /\ pc = "extract"
    /\ IF \E k \in 1 .. Len(cmds) : ~Supported(cmds[k])
       THEN LET bad == CHOOSE k \in 1 .. Len(cmds) :
                          /\ ~Supported(cmds[k])
                          /\ \A j \in 1 .. k - 1 : Supported(cmds[j])
            IN  /\ pts' = PointsOf(cmds, transform, bad - 1)
                /\ msgs' = Append(msgs, MsgUnsupported(cmds[bad].letter))
                /\ pc' = "done"
       ELSE LET all == PointsOf(cmds, transform, Len(cmds))
            IN  /\ pts' = all
                /\ IF TooFewPoints(all)
                   THEN /\ msgs' = Append(msgs, MsgTooFew)
                        /\ pc' = "done"
                   ELSE /\ msgs' = msgs
                        /\ pc' = "geometry"
    /\ UNCHANGED <<inputs, closed, half_w, outer_r, inner_r, dirs, norms,
                   left_pts, right_pts, left_loop, right_loop, parent, failure>>
    /\ UNCHANGED parser

-----------------------------------------------------------------------------
(* effect(): radii, segment directions and normals *)

\* width / 2.0
HalfWidth(w) == Div(w, 2 * Scale)

\* a slip in the design radius: the fillet fraction is not clamped
DesignRadius_NoClamp(f, w) == Mul(f, w)

\* design_r = max(fillet, 0.5) * width
DesignRadius(f, w) == Mul(Max(f, Scale \div 2), w)

OuterRadius(f, w) == DesignRadius(f, w) + HalfWidth(w)
InnerRadius(f, w) == Max(DesignRadius(f, w) - HalfWidth(w), 0)

\* math.hypot of the edge from a to b
EdgeLength(a, b) == Hypot(b[1] - a[1], b[2] - a[2])

\* (ux, uy) = (dx / L, dy / L), for L > 0
UnitDir(a, b) ==
    LET L == EdgeLength(a, b)
    IN  <<Div(b[1] - a[1], L), Div(b[2] - a[2], L)>>

\* the perpendicular (-uy, ux)
LeftNormal(u) == <<-u[2], u[1]>>

\* the edges i -> i+1 of p for i in 1 .. k
EdgeDirs(p, k) == [i \in 1 .. k |-> UnitDir(p[i], p[i + 1])]
EdgeNorms(p, k) == [i \in 1 .. k |-> LeftNormal(UnitDir(p[i], p[i + 1]))]

SegmentGeometry ==
    /\ pc = "geometry"
    /\ half_w' = HalfWidth(width)
    /\ outer_r' = OuterRadius(fillet, width)
    /\ inner_r' = InnerRadius(fillet, width)
    /\ LET n == Len(pts)
           zero == {i \in 1 .. n - 1 : EdgeLength(pts[i], pts[i + 1]) = 0}
       IN  IF zero # {}
           THEN \* the loop stops at the first zero-length edge
                LET first == CHOOSE i \in zero : \A j \in zero : i <= j
                IN  /\ dirs' = EdgeDirs(pts, first - 1)
                    /\ norms' = EdgeNorms(pts, first - 1)
                    /\ msgs' = Append(msgs, MsgZeroLength)
                    /\ pc' = "done"
                    /\ failure' = failure
           ELSE IF closed /\ EdgeLength(pts[n], pts[1]) = 0
           THEN \* dx / L with L = 0 on the wrap-around edge
                /\ dirs' = EdgeDirs(pts, n - 1)
                /\ norms' = EdgeNorms(pts, n - 1)
                /\ failure' = "ZeroDivisionError"
                /\ pc' = "done"
                /\ msgs' = msgs
           ELSE /\ dirs' = IF closed
                           THEN Append(EdgeDirs(pts, n - 1), UnitDir(pts[n], pts[1]))
                           ELSE EdgeDirs(pts, n - 1)
                /\ norms' = IF closed
                            THEN Append(EdgeNorms(pts, n - 1),
                                        LeftNormal(UnitDir(pts[n], pts[1])))
                            ELSE EdgeNorms(pts, n - 1)
                /\ pc' = "offset"
                /\ UNCHANGED <<msgs, failure>>
    /\ UNCHANGED <<inputs, closed, pts, left_pts, right_pts, left_loop,
                   right_loop, parent>>
    /\ UNCHANGED parser

-----------------------------------------------------------------------------
(* effect(): the two offset polylines *)

\* |denom| < 1e-6
NearParallel(denom) == Abs(denom) * EpsParallelInv < Scale

\* a slip in the solution of the 2x2 system: delta taken as p1 - p2
intersect_DeltaSwapped(p1, d1, p2, d2) ==
    LET denom == Mul(d1[1], d2[2]) - Mul(d1[2], d2[1])
    IN  IF Abs(denom) * EpsParallelInv < Scale THEN p1
        ELSE LET delta == <<p1[1] - p2[1], p1[2] - p2[2]>>
                 t == Div(Mul(delta[1], d2[2]) - Mul(delta[2], d2[1]), denom)
             IN  <<p1[1] + Mul(t, d1[1]), p1[2] + Mul(t, d1[2])>>

\* intersect the infinite lines p1 + t*d1 and p2 + u*d2
intersect(p1, d1, p2, d2) ==
    LET denom == Mul(d1[1], d2[2]) - Mul(d1[2], d2[1])
    IN  IF NearParallel(denom) THEN p1
        ELSE LET delta == <<p2[1] - p1[1], p2[2] - p1[2]>>
                 t == Div(Mul(delta[1], d2[2]) - Mul(delta[2], d2[1]), denom)
             IN  <<p1[1] + Mul(t, d1[1]), p1[2] + Mul(t, d1[2])>>

\* p + side * nrm * half_w, side = 1 for the left polyline, -1 for the right
Shifted(p, nrm, hw, side) ==
    <<p[1] + side * Mul(nrm[1], hw), p[2] + side * Mul(nrm[2], hw)>>

\* index of the edge that enters vertex i when the path is closed or i > 1
IncomingEdge(i, n) == IF i = 1 THEN n ELSE i - 1

\* a slip in the caps: the end cap takes the first edge's normal too
CapNormal_FirstEdgeOnly(ns, i) == ns[1]

\* the normal of the cap at vertex i of an open path: norms[0] at the start,
\* norms[-1] at the end
CapNormal(ns, i) == IF i = 1 THEN ns[1] ELSE ns[Len(ns)]

\* the offset vertex of pts[i] on one side
OffsetVertex(p, ds, ns, hw, isClosed, i, side) ==
    LET n == Len(p)
    IN  IF ~isClosed /\ (i = 1 \/ i = n)
        THEN Shifted(p[i], CapNormal(ns, i), hw, side)
        ELSE LET a == IncomingEdge(i, n)
             IN  intersect(Shifted(p[i], ns[a], hw, side), ds[a],
                           Shifted(p[i], ns[i], hw, side), ds[i])

BuildOffsets ==
    /\ pc = "offset"
    /\ IF ~closed /\ norms = << >>
       THEN \* norms[0] of an empty list
            /\ failure' = "IndexError"
            /\ pc' = "done"
            /\ UNCHANGED <<left_pts, right_pts>>
       ELSE /\ left_pts' = [i \in 1 .. Len(pts) |->
                               OffsetVertex(pts, dirs, norms, half_w, closed, i, 1)]
            /\ right_pts' = [i \in 1 .. Len(pts) |->
                               OffsetVertex(pts, dirs, norms, half_w, closed, i, -1)]
            /\ pc' = IF variant = "fillet" THEN "fillet" ELSE "assemble"
            /\ failure' = failure
    /\ UNCHANGED <<inputs, closed, pts, half_w, outer_r, inner_r, dirs, norms,
                   left_loop, right_loop, parent, msgs>>
    /\ UNCHANGED parser

-----------------------------------------------------------------------------
(* compute_fillet *)

\* angle_between(u, v), as the cosine of the angle: the dot product clamped
\* to [-1, 1]
angle_between(u, v) ==
    Max(-Scale, Min(Scale, Mul(u[1], v[1]) + Mul(u[2], v[2])))

\* a slip in the classification: only acute corners count as interior
IsInterior_AcuteOnly(cosAng) == cosAng > 0

\* ang < math.pi: acos returns pi for -1 only
IsInterior(cosAng) == cosAng > -Scale

\* a slip in the degeneracy test: the near-pi case is forgotten
AngleDegenerate_NoPiCase(cosTheta) ==
    2 * (Scale - cosTheta) * EpsAngleInv < Scale \div EpsAngleInv

\* theta < 1e-3 or abs(math.pi - theta) < 1e-3, with 1 - cos(1e-3) = 1e-6 / 2
AngleDegenerate(cosTheta) ==
    \/ 2 * (Scale - cosTheta) * EpsAngleInv < Scale \div EpsAngleInv
    \/ 2 * (Scale + cosTheta) * EpsAngleInv < Scale \div EpsAngleInv

\* cos(x / 2) and tan(x / 2) from c = cos(x), for x in [0, pi]
CosHalf(c) == ISqrt(((Scale + c) * Scale) \div 2)
TanHalf(c) == ISqrt(((Scale - c) * Scale * Scale) \div (Scale + c))

\* k = 4.0 / 3.0 * tan(phi / 2.0) with phi = theta / 2.0
BezierK(cosTheta) == (4 * TanHalf(CosHalf(cosTheta))) \div 3

\* a slip in the clamp: the factor 0.5 is forgotten
ClampRadius_NoHalf(r, d1, d2) == Min(r, Min(d1, d2))

\* r = min(r, 0.5 * min(d1, d2))
ClampRadius(r, d1, d2) == Min(r, Min(d1, d2) \div 2)

LineCmd(p) == [kind |-> "L", p |-> <<p>>]
CubicCmd(c1, c2, e) == [kind |-> "C", p |-> <<c1, c2, e>>]

\* the commands one pass of the loop appends for vertex i of pts_loop, or
\* the exception that pass raises
FilletVertex(raw_pts, pts_loop, outer, inner, is_closed, i) ==
    LET m == Len(pts_loop)
        p == pts_loop[i]
        rn == Len(raw_pts)
    IN  IF ~is_closed /\ (i = 1 \/ i = m)
        THEN [err |-> "none", out |-> <<LineCmd(p)>>]
        ELSE
        LET raw_prev == IF i > 1 THEN raw_pts[i - 1] ELSE raw_pts[rn]
            raw_cur == raw_pts[i]
            raw_next == IF is_closed THEN raw_pts[(i % rn) + 1] ELSE raw_pts[i + 1]
            L1 == EdgeLength(raw_cur, raw_prev)
            L2 == EdgeLength(raw_cur, raw_next)
        IN  IF L1 = 0 \/ L2 = 0
            THEN [err |-> "none", out |-> <<LineCmd(p)>>]
            ELSE
            LET is_interior ==
                    IsInterior(angle_between(UnitDir(raw_cur, raw_prev),
                                             UnitDir(raw_cur, raw_next)))
                prev_off == IF i > 1 THEN pts_loop[i - 1] ELSE pts_loop[m]
                next_off == IF is_closed THEN pts_loop[(i % m) + 1]
                                         ELSE pts_loop[i + 1]
                d1 == EdgeLength(p, prev_off)
                d2 == EdgeLength(p, next_off)
                r == ClampRadius(IF is_interior THEN inner ELSE outer, d1, d2)
            IN  IF d1 = 0 \/ d2 = 0
                THEN [err |-> "ZeroDivisionError", out |-> << >>]
                ELSE
                LET t1 == UnitDir(p, prev_off)
                    t2 == UnitDir(p, next_off)
                    start_pt == <<p[1] + Mul(t1[1], r), p[2] + Mul(t1[2], r)>>
                    end_pt == <<p[1] + Mul(t2[1], r), p[2] + Mul(t2[2], r)>>
                    theta == angle_between(t1, t2)
                IN  IF AngleDegenerate(theta)
                    THEN [err |-> "none", out |-> <<LineCmd(p)>>]
                    ELSE
                    LET k == BezierK(theta)
                        n1 == LeftNormal(t1)
                        n2 == LeftNormal(t2)
                        s1 == IF ~is_interior THEN 1 ELSE -1
                        s2 == IF is_interior THEN 1 ELSE -1
                        c1 == <<start_pt[1] + Mul(Mul(n1[1], r), k) * s1,
                                start_pt[2] + Mul(Mul(n1[2], r), k) * s1>>
                        c2 == <<end_pt[1] + Mul(Mul(n2[1], r), k) * s2,
                                end_pt[2] + Mul(Mul(n2[2], r), k) * s2>>
                    IN  [err |-> "none",
                         out |-> <<LineCmd(start_pt), CubicCmd(c1, c2, end_pt)>>]

\* fillet_cmds after the passes for vertices 1 .. k
RECURSIVE FilletCmds(_, _, _, _, _, _)
FilletCmds(raw_pts, pts_loop, outer, inner, is_closed, k) ==
    IF k = 0 THEN << >>
    ELSE FilletCmds(raw_pts, pts_loop, outer, inner, is_closed, k - 1)
         \o FilletVertex(raw_pts, pts_loop, outer, inner, is_closed, k).out

\* compute_fillet: the command list, or the exception of the first pass
\* that raises one
compute_fillet(raw_pts, pts_loop, outer, inner, is_closed) ==
    LET m == Len(pts_loop)
        bad == {i \in 1 .. m :
                  FilletVertex(raw_pts, pts_loop, outer, inner, is_closed, i).err
                      # "none"}
    IN  IF bad # {}
        THEN LET first == CHOOSE i \in bad : \A j \in bad : i <= j
             IN  [err |-> FilletVertex(raw_pts, pts_loop, outer, inner,
                                       is_closed, first).err,
                  cmds |-> << >>]
        ELSE [err |-> "none",
              cmds |-> FilletCmds(raw_pts, pts_loop, outer, inner, is_closed, m)]

ComputeFillets ==
    /\ pc = "fillet"
    /\ LET l == compute_fillet(pts, left_pts, outer_r, inner_r, closed)
           r == compute_fillet(pts, right_pts, outer_r, inner_r, closed)
       IN  IF l.err # "none"
           THEN /\ failure' = l.err
                /\ pc' = "done"
                /\ UNCHANGED <<left_loop, right_loop>>
           ELSE IF r.err # "none"
           THEN /\ left_loop' = l.cmds
                /\ failure' = r.err
                /\ pc' = "done"
                /\ UNCHANGED right_loop
           ELSE /\ left_loop' = l.cmds
                /\ right_loop' = r.cmds
                /\ pc' = "assemble"
                /\ UNCHANGED failure
    /\ UNCHANGED <<inputs, closed, pts, half_w, outer_r, inner_r, dirs, norms,
                   left_pts, right_pts, parent, msgs>>
    /\ UNCHANGED parser

-----------------------------------------------------------------------------
(* effect(): the output paths *)

(***************************************************************************)
(* A command handed to inkex.Path is [letter, stray, args]: args are the   *)
(* numbers among the command's arguments, in order, and stray is the       *)
(* string found among them where a number belongs ("" when there is none). *)
(***************************************************************************)
PathCmd(letter, stray, args) == [letter |-> letter, stray |-> stray, args |-> args]

\* the coordinates of a sequence of points, in order
RECURSIVE Flatten(_)
Flatten(ps) ==
    IF ps = << >> THEN << >>
    ELSE <<ps[1][1], ps[1][2]>> \o Flatten(Tail(ps))

\* reversed(seq)
Reversed(seq) == [j \in 1 .. Len(seq) |-> seq[Len(seq) + 1 - j]]

\* a slip in the merge: the right side is appended without being reversed
ReversedRight_Forward(loop) == loop

\* reversed_right = [[cmd[0], cmd[1]] for cmd in reversed(right_loop)]
ReversedRight(loop) == Reversed(loop)

\* build_path(cmds) with move_first = True
build_path(cs) ==
    (IF cs # << >>
     THEN <<PathCmd("M", "", Flatten(cs[1].p))>>
          \o [j \in 1 .. Len(cs) - 1 |->
                 PathCmd(cs[j + 1].kind, "", Flatten(cs[j + 1].p))]
     ELSE << >>)
    \o <<PathCmd("Z", "", << >>)>>

\* [['M', loop[0]]] + [['L', pt] for pt in loop[1:]] + [['Z', []]] where the
\* elements of loop are the fillet commands (kind, points) themselves
ClosedLoop(loop) ==
    [j \in 1 .. Len(loop) |->
        PathCmd(IF j = 1 THEN "M" ELSE "L", loop[j].kind, Flatten(loop[j].p))]
    \o <<PathCmd("Z", "", << >>)>>

\* [["M", ps[0]]] + [["L", p] for p in ps[1:]] + [["Z", []]]
Polygon(ps) ==
    [j \in 1 .. Len(ps) |->
        PathCmd(IF j = 1 THEN "M" ELSE "L", "", <<ps[j][1], ps[j][2]>>)]
    \o <<PathCmd("Z", "", << >>)>>

\* pneurouter.py
AssembleFillet ==
    /\ pc = "assemble"
    /\ variant = "fillet"
    /\ IF closed
       THEN /\ parent' = parent \o <<ClosedLoop(left_loop), ClosedLoop(right_loop)>>
            /\ msgs' = msgs
       ELSE /\ parent' = Append(parent,
                                build_path(left_loop \o ReversedRight(right_loop)))
            /\ msgs' = Append(msgs, MsgRibbonCmds)
    /\ pc' = "done"
    /\ UNCHANGED <<inputs, locals, failure, parser>>

\* pneurouter_offset_only.py
AssembleOffsetOnly ==
    /\ pc = "assemble"
    /\ variant = "offset_only"
    /\ IF closed
       THEN parent' = parent \o <<Polygon(left_pts), Polygon(right_pts)>>
       ELSE parent' = Append(parent, Polygon(left_pts \o Reversed(right_pts)))
    /\ pc' = "done"
    /\ UNCHANGED <<inputs, locals, msgs, failure, parser>>

-----------------------------------------------------------------------------

Next ==
    \/ CheckSelection
    \/ ExtractPoints
    \/ SegmentGeometry
    \/ BuildOffsets
    \/ ComputeFillets
    \/ AssembleFillet
    \/ AssembleOffsetOnly

Spec == Init /\ [][Next]_vars

-----------------------------------------------------------------------------
(* SvgLayerParser._points_from_path *)

MaxCmds == 4     \* longest command sequence given to the path reader

PCmd(letter, args) == [letter |-> letter, args |-> args]

Coords == {Scale, 2 * Scale}
CtrlA == 7 * Scale       \* coordinates of control points and arc parameters
CtrlB == 8 * Scale
FarEnd == 3 * Scale      \* end coordinate of the curve and arc commands

\* the commands of an absolute path, each with the arguments of its letter
PathCmds ==
    {PCmd(l, <<v, v>>) : l \in {"M", "L"}, v \in Coords}
    \cup {PCmd(l, <<v>>) : l \in {"H", "V"}, v \in Coords}
    \cup {PCmd("T", <<FarEnd, Scale>>),
          PCmd("C", <<CtrlA, CtrlB, CtrlB, CtrlA, Scale, FarEnd>>),
          PCmd("S", <<CtrlA, CtrlB, FarEnd, 2 * Scale>>),
          PCmd("Q", <<CtrlB, CtrlA, 2 * Scale, FarEnd>>),
          PCmd("A", <<CtrlA, CtrlA, 0, 0, Scale, FarEnd, FarEnd>>),
          PCmd("Z", << >>)}

\* the command sequences of length n that start with a MoveTo
RECURSIVE AbsPaths(_)
AbsPaths(n) ==
    IF n = 0 THEN {<< >>}
    ELSE IF n = 1 THEN {<<c>> : c \in {d \in PathCmds : d.letter = "M"}}
    ELSE {Append(s, c) : s \in AbsPaths(n - 1), c \in PathCmds}

\* a call of _points_from_path(path, transform) starts
ParserInit ==
    /\ variant = "fillet"
    /\ selCount = 0
    /\ isPath = FALSE
    /\ cmds = << >>
    /\ transform = <<0, 0>>
    /\ width = Scale
    /\ fillet = Scale \div 2
    /\ pc = "idle"
    /\ closed = FALSE
    /\ pts = << >>
    /\ half_w = 0
    /\ outer_r = 0
    /\ inner_r = 0
    /\ dirs = << >>
    /\ norms = << >>
    /\ left_pts = << >>
    /\ right_pts = << >>
    /\ left_loop = << >>
    /\ right_loop = << >>
    /\ parent = << >>
    /\ msgs = << >>
    /\ failure = "none"
    /\ \E n \in 0 .. MaxCmds : abs_path \in AbsPaths(n)
    /\ path_tf \in Translations
    /\ cmd_pos = 0
    /\ points = << >>
    /\ current = <<0, 0>>
    /\ result = << >>
    /\ ppc = "loop"

\* (args[i], args[i + 1]) for i in range(0, len(args) - 1, 2)
PairsOf(args) ==
    [j \in 1 .. Len(args) \div 2 |-> <<args[2 * j - 1], args[2 * j]>>]

\* the last element of seq, or dflt when seq is empty
LastOr(seq, dflt) == IF seq = << >> THEN dflt ELSE seq[Len(seq)]

\* the loop is about to process a command with one of these letters
AtLetter(letters) ==
    /\ ppc = "loop"
    /\ cmd_pos < Len(abs_path)
    /\ abs_path[cmd_pos + 1].letter \in letters

\* what every pass of the loop leaves alone, and the move to the next command
NextCmd ==
    /\ cmd_pos' = cmd_pos + 1
    /\ UNCHANGED <<abs_path, path_tf, result, ppc>>
    /\ UNCHANGED <<inputs, pc, locals, parent, msgs, failure>>

\* letter in ("M", "L", "T")
ReadMoveLine ==
    /\ AtLetter({"M", "L", "T"})
    /\ LET new == PairsOf(abs_path[cmd_pos + 1].args)
       IN  /\ points' = points \o new
           /\ current' = LastOr(new, current)
    /\ NextCmd

\* letter == "H"
ReadHorizontal ==
    /\ AtLetter({"H"})
    /\ LET args == abs_path[cmd_pos + 1].args
           new == [j \in 1 .. Len(args) |-> <<args[j], current[2]>>]
       IN  /\ points' = points \o new
           /\ current' = LastOr(new, current)
    /\ NextCmd

\* letter == "V"
ReadVertical ==
    /\ AtLetter({"V"})
    /\ LET args == abs_path[cmd_pos + 1].args
           new == [j \in 1 .. Len(args) |-> <<current[1], args[j]>>]
       IN  /\ points' = points \o new
           /\ current' = LastOr(new, current)
    /\ NextCmd

\* letter == "C"
ReadCubic ==
    /\ AtLetter({"C"})
    /\ LET args == abs_path[cmd_pos + 1].args
       IN  /\ points' = points \o PairsOf(args)
           /\ current' = IF Len(args) >= 6 THEN <<args[5], args[6]>> ELSE current
    /\ NextCmd

\* letter in ("S", "Q")
ReadSmoothQuad ==
    /\ AtLetter({"S", "Q"})
    /\ LET args == abs_path[cmd_pos + 1].args
       IN  /\ points' = points \o PairsOf(args)
           /\ current' = IF Len(args) >= 4
                         THEN <<args[Len(args) - 1], args[Len(args)]>>
                         ELSE current
    /\ NextCmd

\* letter == "A"
ReadArc ==
    /\ AtLetter({"A"})
    /\ LET args == abs_path[cmd_pos + 1].args
       IN  IF Len(args) >= 2
           THEN LET pt == <<args[Len(args) - 1], args[Len(args)]>>
                IN  /\ points' = Append(points, pt)
                    /\ current' = pt
           ELSE UNCHANGED <<points, current>>
    /\ NextCmd

\* letter == "Z": pass
ReadClose ==
    /\ AtLetter({"Z"})
    /\ UNCHANGED <<points, current>>
    /\ NextCmd

\* return [transform.apply_to_point(p) for p in points]
ReturnPoints ==
    /\ ppc = "loop"
    /\ cmd_pos = Len(abs_path)
    /\ result' = [j \in 1 .. Len(points) |->
                     ApplyToPoint(path_tf, points[j][1], points[j][2])]
    /\ ppc' = "returned"
    /\ UNCHANGED <<abs_path, path_tf, cmd_pos, points, current>>
    /\ UNCHANGED <<inputs, pc, locals, parent, msgs, failure>>

ParserNext ==
    \/ ReadMoveLine
    \/ ReadHorizontal
    \/ ReadVertical
    \/ ReadCubic
    \/ ReadSmoothQuad
    \/ ReadArc
    \/ ReadClose
    \/ ReturnPoints

ParserSpec == ParserInit /\ [][ParserNext]_vars

-----------------------------------------------------------------------------
(* Vocabulary of the properties *)

\* the run got past the host-side checks: one path selected, made of M, L
\* and Z commands only
CoreInput ==
    /\ selCount = 1
    /\ isPath
    /\ cmds # << >>
    /\ \A k \in 1 .. Len(cmds) : Supported(cmds[k])

Extracted == CoreInput /\ pc \notin {"start", "extract"}

\* some edge of p has zero length, the wrap-around edge of a closed path included
HasZeroEdge(p, isClosed) ==
    \/ \E i \in 1 .. Len(p) - 1 : p[i] = p[i + 1]
    \/ isClosed /\ Len(p) >= 1 /\ p[Len(p)] = p[1]

ValidInput == Extracted /\ Len(pts) >= 2 /\ ~HasZeroEdge(pts, closed)

\* the point a path command ends on
EndPoint(c) == <<c.args[Len(c.args) - 1], c.args[Len(c.args)]>>

Letters(loop) == [j \in 1 .. Len(loop) |-> loop[j].letter]

Cross(a, b) == a[1] * b[2] - a[2] * b[1]
Dot(a, b) == a[1] * b[1] + a[2] * b[2]
Minus(a, b) == <<a[1] - b[1], a[2] - b[2]>>
Plus(a, b) == <<a[1] + b[1], a[2] + b[2]>>
Times(k, a) == <<k * a[1], k * a[2]>>

-----------------------------------------------------------------------------
(* C1 *)

\* the loop the assembler is to build from a fillet sequence: MoveTo the
\* point of the first command, the other commands as generated, Close
LoopOf(loop) ==
    <<PathCmd("M", "", Flatten(loop[1].p))>>
    \o [j \in 1 .. Len(loop) - 1 |->
           PathCmd(loop[j + 1].kind, "", Flatten(loop[j + 1].p))]
    \o <<PathCmd("Z", "", << >>)>>

\* C1: a run of pneurouter.py on a closed path that completes adds exactly
\* two loops, the outer one built from the left fillet sequence and the inner
\* one from the right: MoveTo the first command's point, then the remaining
\* fillet commands with their kinds and points, then Close.
C1_ClosedLoopsKeepCommands ==
    (pc = "done" /\ variant = "fillet" /\ ValidInput /\ closed
        /\ failure = "none")
    => /\ Len(parent) = 2
       /\ parent[1] = LoopOf(left_loop)
       /\ parent[2] = LoopOf(right_loop)

-----------------------------------------------------------------------------
(* C2 *)

\* C2: a run on a path with a zero-length edge (the wrap-around edge of a
\* closed path included) ends with the zero-length report and nothing else:
\* no exception, no output loop.
C2_ZeroEdgeReported ==
    (pc = "done" /\ Extracted /\ Len(pts) >= 2 /\ HasZeroEdge(pts, closed))
    => /\ msgs = <<MsgZeroLength>>
       /\ failure = "none"
       /\ parent = << >>

-----------------------------------------------------------------------------
(* C3 *)

\* C3: once fewer than 2 points have been extracted, the run is over with
\* the too-few-points report alone: no exception, no direction, no offset
\* vertex, no fillet command and nothing added to the parent.
C3_TooFewPointsAborts ==
    (Extracted /\ Len(pts) < 2)
    => /\ pc = "done"
       /\ msgs = <<MsgTooFew>>
       /\ failure = "none"
       /\ dirs = << >> /\ norms = << >>
       /\ left_pts = << >> /\ right_pts = << >>
       /\ left_loop = << >> /\ right_loop = << >>
       /\ parent = << >>

\* a run on a path of a single point has ended with the report
C3_Witness ==
    /\ Extracted /\ pc = "done"
    /\ Len(pts) = 1
    /\ msgs = <<MsgTooFew>>

-----------------------------------------------------------------------------
(* C4 *)

\* the turn at vertex i of the closed polygon p: positive to the left
TurnAt(p, i) ==
    LET n == Len(p)
        a == p[IF i = 1 THEN n ELSE i - 1]
        b == p[(i % n) + 1]
    IN  Cross(Minus(p[i], a), Minus(b, p[i]))

\* a closed rectilinear polygon is convex when it is a rectangle: all its
\* turns go the same way and exactly four vertices turn
ConvexPolygon(p) ==
    /\ Len(p) >= 4
    /\ \/ \A i \in 1 .. Len(p) : TurnAt(p, i) >= 0
       \/ \A i \in 1 .. Len(p) : TurnAt(p, i) <= 0
    /\ Cardinality({i \in 1 .. Len(p) : TurnAt(p, i) # 0}) = 4

\* Len(p) times the vector from the centroid of p to q
FromCentroid(p, q) ==
    LET RECURSIVE Sum(_)
        Sum(k) == IF k = 0 THEN <<0, 0>> ELSE Plus(Sum(k - 1), p[k])
    IN  Minus(Times(Len(p), q), Sum(Len(p)))

\* q is farther from the centroid of p than v / no farther than v
Farther(p, q, v) ==
    Dot(FromCentroid(p, q), FromCentroid(p, q))
        > Dot(FromCentroid(p, v), FromCentroid(p, v))

\* C4: for a closed convex polygon, each point of the outer loop (the first
\* loop added, built from the left side) is strictly farther from the
\* polygon's centroid than the input vertex of the same index, and each point
\* of the inner loop is no farther.
C4_OuterLoopIsOutside ==
    (pc = "done" /\ variant = "offset_only" /\ ValidInput /\ closed
        /\ ConvexPolygon(pts))
    => /\ Len(parent) = 2
       /\ \A i \in 1 .. Len(pts) :
             /\ Farther(pts, EndPoint(parent[1][i]), pts[i])
             /\ ~Farther(pts, EndPoint(parent[2][i]), pts[i])

-----------------------------------------------------------------------------
(* C5 *)

\* C5: for an open path of two distinct points a and b, the output is one
\* loop M L L L Z (no curve) whose points P1..P4 form a rectangle: P1->P2 and
\* P4->P3 are the segment a->b translated, the caps P4-P1 and P3-P2 are
\* perpendicular to it, of length total_width, and centred on a and b.
C5_SegmentGivesRectangle ==
    (pc = "done" /\ Extracted /\ ~closed /\ Len(pts) = 2 /\ pts[1] # pts[2])
    => /\ failure = "none"
       /\ Len(parent) = 1
       /\ Letters(parent[1]) = <<"M", "L", "L", "L", "Z">>
       /\ \A j \in 1 .. 4 : parent[1][j].stray = "" /\ Len(parent[1][j].args) = 2
       /\ LET a == pts[1]
              b == pts[2]
              P == [j \in 1 .. 4 |-> EndPoint(parent[1][j])]
          IN  /\ Minus(P[2], P[1]) = Minus(b, a)
              /\ Minus(P[3], P[4]) = Minus(b, a)
              /\ Plus(P[1], P[4]) = Times(2, a)
              /\ Plus(P[2], P[3]) = Times(2, b)
              /\ Dot(Minus(P[1], P[4]), Minus(b, a)) = 0
              /\ Dot(Minus(P[1], P[4]), Minus(P[1], P[4])) = width * width

\* pneurouter.py has added the ribbon of a two-point open path
C5_Witness ==
    /\ pc = "done" /\ Extracted /\ variant = "fillet"
    /\ ~closed /\ Len(pts) = 2 /\ pts[1] # pts[2]
    /\ Len(parent) = 1

-----------------------------------------------------------------------------
(* Vocabulary of the fillet properties *)

IsLine(c) == c.kind = "L"
IsStraightCmd(c) == c.letter \in {"M", "L"}

\* the two sides once their fillet sequences exist: <<offset points, commands>>
FilletedSides ==
    {sd \in {<<left_pts, left_loop>>, <<right_pts, right_loop>>} : sd[2] # << >>}

PrevIdx(i, n) == IF i = 1 THEN n ELSE i - 1
NextIdx(i, n) == (i % n) + 1

\* vertex i has both neighbours on its side of the path
Filletable(i, n) == closed \/ (1 < i /\ i < n)

Distance(a, b) == Hypot(b[1] - a[1], b[2] - a[2])

\* position in loop of the i-th LineTo: the first command of vertex i
LineIdx(loop, i) ==
    CHOOSE j \in 1 .. Len(loop) :
        /\ IsLine(loop[j])
        /\ Cardinality({q \in 1 .. j : IsLine(loop[q])}) = i

\* vertex i was given an arc
HasArc(loop, i) ==
    LET j == LineIdx(loop, i)
    IN  j < Len(loop) /\ loop[j + 1].kind = "C"

ArcStart(loop, i) == loop[LineIdx(loop, i)].p[1]
ArcEnd(loop, i) == loop[LineIdx(loop, i) + 1].p[3]

\* the radius of the arc at vertex i of a side, 0 where there is none
ArcRadius(sd, i) ==
    IF HasArc(sd[2], i) THEN Distance(sd[1][i], ArcStart(sd[2], i)) ELSE 0

-----------------------------------------------------------------------------
(* C6 *)

\* C6: the ribbon of an open path is one continuous outline.  Its straight
\* commands visit the left vertices 1..n and then the right vertices n..1,
\* and every CubicTo in it is an arc of one vertex drawn from where the pen
\* stands: the pen is on one arc endpoint of that vertex, the curve ends on
\* the other, the first control point is the one computed for the endpoint
\* the curve leaves and the second the one computed for the endpoint it reaches.
C6_OpenRibbonIsContinuous ==
    (pc = "done" /\ variant = "fillet" /\ ValidInput /\ ~closed
        /\ failure = "none")
    => LET R == parent[1]
           n == Len(pts)
           straight == SelectSeq(R, IsStraightCmd)
           leftLines == SelectSeq(left_loop, IsLine)
           rightLines == SelectSeq(right_loop, IsLine)
       IN  /\ Len(straight) = 2 * n
           /\ \A k \in 1 .. n :
                 /\ EndPoint(straight[k]) = leftLines[k].p[1]
                 /\ EndPoint(straight[n + k]) = rightLines[n + 1 - k].p[1]
           /\ \A j \in 1 .. Len(R) :
                 R[j].letter = "C" =>
                    \E loop \in {left_loop, right_loop} :
                    \E q \in 2 .. Len(loop) :
                       /\ loop[q].kind = "C"
                       /\ LET st == loop[q - 1].p[1]
                              c1 == loop[q].p[1]
                              c2 == loop[q].p[2]
                              en == loop[q].p[3]
                              pen == EndPoint(R[j - 1])
                          IN  \/ pen = st /\ R[j].args = Flatten(<<c1, c2, en>>)
                              \/ pen = en /\ R[j].args = Flatten(<<c2, c1, st>>)

-----------------------------------------------------------------------------
(* C7 *)

\* C7: at every vertex that was given an arc, the arc's radius r is
\* min(design radius, half the shorter adjacent offset edge), the design
\* radius being inner_r or outer_r; the arc starts r from the offset vertex on
\* the edge to the previous offset vertex and ends r from it on the edge to
\* the next one; and the arcs at the two ends of an offset edge together take
\* no more than the edge's length.
C7_RadiusClampedToHalfEdge ==
    \A sd \in FilletedSides :
        LET S == sd[1]
            loop == sd[2]
            n == Len(S)
        IN  \A i \in 1 .. n :
               /\ HasArc(loop, i) =>
                     LET p == S[i]
                         a == S[PrevIdx(i, n)]
                         b == S[NextIdx(i, n)]
                         dp == Distance(p, a)
                         dn == Distance(p, b)
                         r == ArcRadius(sd, i)
                     IN  /\ 2 * r <= Min(dp, dn)
                         /\ \E sel \in {inner_r, outer_r} :
                               /\ r <= sel
                               /\ r = sel \/ 2 * r = Min(dp, dn)
                         /\ Distance(p, ArcEnd(loop, i)) = r
                         /\ Times(dp, Minus(ArcStart(loop, i), p)) = Times(r, Minus(a, p))
                         /\ Times(dn, Minus(ArcEnd(loop, i), p)) = Times(r, Minus(b, p))
               /\ (closed \/ i < n) =>
                     ArcRadius(sd, i) + ArcRadius(sd, NextIdx(i, n))
                         <= Distance(S[i], S[NextIdx(i, n)])

\* an arc whose radius the clamp has shortened below the design radius
C7_Witness ==
    /\ pc = "done" /\ failure = "none" /\ variant = "fillet"
    /\ \E i \in 1 .. Len(left_pts) :
          /\ HasArc(left_loop, i)
          /\ 0 < ArcRadius(<<left_pts, left_loop>>, i)
          /\ ArcRadius(<<left_pts, left_loop>>, i) < inner_r

-----------------------------------------------------------------------------
(* C8 *)

\* q is v moved by side * half_w along the left normal of the edge a -> b
CapOf(q, v, a, b, side) ==
    LET L == Distance(a, b)
    IN  /\ L * (q[1] - v[1]) = side * half_w * (-(b[2] - a[2]))
        /\ L * (q[2] - v[2]) = side * half_w * (b[1] - a[1])

\* C8: on an open path the offset vertices of the first and the last point are
\* the point moved by half_w along the left normal of its single edge (left
\* side) or against it (right side), and the fillet sequence of each side
\* starts with the LineTo of its first offset vertex, not followed by a
\* CubicTo, and ends with the LineTo of its last offset vertex.
C8_OpenEndsAreFlatCaps ==
    (ValidInput /\ ~closed)
    => LET n == Len(pts)
       IN  /\ left_pts # << >> =>
                 /\ CapOf(left_pts[1], pts[1], pts[1], pts[2], 1)
                 /\ CapOf(right_pts[1], pts[1], pts[1], pts[2], -1)
                 /\ CapOf(left_pts[n], pts[n], pts[n - 1], pts[n], 1)
                 /\ CapOf(right_pts[n], pts[n], pts[n - 1], pts[n], -1)
           /\ \A sd \in FilletedSides :
                 /\ Len(sd[2]) >= 2
                 /\ sd[2][1] = [kind |-> "L", p |-> <<sd[1][1]>>]
                 /\ sd[2][2].kind = "L"
                 /\ sd[2][Len(sd[2])] = [kind |-> "L", p |-> <<sd[1][n]>>]

\* an open path that turns, with caps and an arc on its left side
C8_Witness ==
    /\ pc = "done" /\ failure = "none" /\ variant = "fillet"
    /\ ValidInput /\ ~closed
    /\ \E i \in 2 .. Len(pts) - 1 : HasArc(left_loop, i)
    /\ dirs[1] # dirs[Len(dirs)]

-----------------------------------------------------------------------------
(* C9 *)

\* vertex i of the path gets its offset vertices from intersect
Mitred(i) == closed \/ (1 < i /\ i < Len(pts))

\* the cross product of the two edge directions at vertex i
DirCross(i) ==
    LET a == PrevIdx(i, Len(pts))
    IN  Mul(dirs[a][1], dirs[i][2]) - Mul(dirs[a][2], dirs[i][1])

\* signed distance of q from the line through v with unit direction d,
\* positive on the left
SignedDistance(q, v, d) == Mul(d[1], q[2] - v[2]) - Mul(d[2], q[1] - v[1])

\* C9: at a vertex whose edge directions have |cross product| < 1e-6 the
\* offset vertex is the first offset point (the vertex moved along the
\* incoming edge's normal); at any other vertex it is on both offset lines:
\* at distance half_w from the lines of both adjacent edges, on the left of
\* both (left side) or on the right of both (right side).
C9_IntersectOnBothOffsetLines ==
    (ValidInput /\ left_pts # << >>)
    => \A i \in 1 .. Len(pts) :
          Mitred(i) =>
             LET a == PrevIdx(i, Len(pts))
             IN  IF Abs(DirCross(i)) * 1000000 < Scale
                 THEN /\ left_pts[i] = Plus(pts[i], <<Mul(norms[a][1], half_w),
                                                       Mul(norms[a][2], half_w)>>)
                      /\ right_pts[i] = Minus(pts[i], <<Mul(norms[a][1], half_w),
                                                         Mul(norms[a][2], half_w)>>)
                 ELSE /\ SignedDistance(left_pts[i], pts[i], dirs[a]) = half_w
                      /\ SignedDistance(left_pts[i], pts[i], dirs[i]) = half_w
                      /\ SignedDistance(right_pts[i], pts[i], dirs[a]) = -half_w
                      /\ SignedDistance(right_pts[i], pts[i], dirs[i]) = -half_w

\* offsets computed for a path with a corner and a straight-through vertex
C9_Witness ==
    /\ ValidInput /\ left_pts # << >>
    /\ \E i \in 1 .. Len(pts) : Mitred(i) /\ DirCross(i) # 0
    /\ \E i \in 1 .. Len(pts) : Mitred(i) /\ DirCross(i) = 0

-----------------------------------------------------------------------------
(* C10 *)

\* the offset edges at vertex i of side S are parallel: the angle between the
\* tangents is 0 or pi
FlatAt(S, i) ==
    LET n == Len(S)
    IN  Cross(Minus(S[PrevIdx(i, n)], S[i]), Minus(S[NextIdx(i, n)], S[i])) = 0

\* C10: a fillet sequence for n points holds n LineTo commands and between n
\* and 2n commands in all; it starts with a LineTo, and every CubicTo (three
\* points) directly follows a LineTo (one point).  A vertex with both
\* neighbours contributes the single LineTo of its offset vertex where the
\* angle between its tangents is 0 or pi, and a LineTo followed by a CubicTo
\* elsewhere.
C10_FilletSequenceShape ==
    \A sd \in FilletedSides :
        LET S == sd[1]
            loop == sd[2]
            n == Len(S)
        IN  /\ n <= Len(loop) /\ Len(loop) <= 2 * n
            /\ loop[1].kind = "L"
            /\ Len(SelectSeq(loop, IsLine)) = n
            /\ \A j \in 1 .. Len(loop) :
                  \/ loop[j].kind = "L" /\ Len(loop[j].p) = 1
                  \/ /\ loop[j].kind = "C" /\ Len(loop[j].p) = 3
                     /\ j > 1 /\ loop[j - 1].kind = "L"
            /\ \A i \in 1 .. n :
                  Filletable(i, n) =>
                     IF FlatAt(S, i)
                     THEN /\ ~HasArc(loop, i)
                          /\ loop[LineIdx(loop, i)].p = <<S[i]>>
                     ELSE HasArc(loop, i)

\* a fillet sequence with a straight-through vertex and an arc
C10_Witness ==
    /\ pc = "done" /\ failure = "none" /\ variant = "fillet"
    /\ \E i \in 1 .. Len(left_pts) :
          Filletable(i, Len(left_pts)) /\ FlatAt(left_pts, i)
    /\ \E i \in 1 .. Len(left_pts) : HasArc(left_loop, i)

-----------------------------------------------------------------------------
(* C11 *)

\* the radii have been computed: the run got past the length check
RadiiComputed == Extracted /\ Len(pts) >= 2 /\ pc # "geometry"

\* C11: once the radii are computed, outer_r = design_radius + width/2 and
\* inner_r = max(design_radius - width/2, 0) with design_radius =
\* max(fillet, 0.5) * width; so inner_r >= 0, outer_r - inner_r = width, and
\* inner_r = 0 exactly when fillet <= 0.5.  For width 2 and fillet 0.6 the
\* radii are 2.2 and 0.2.
C11_RadiiFromWidthAndFillet ==
    RadiiComputed
    => LET twiceDesign == 2 * Max(fillet, Scale \div 2) * width
       IN  /\ 2 * Scale * outer_r = twiceDesign + Scale * width
           /\ 2 * Scale * inner_r = Max(twiceDesign - Scale * width, 0)
           /\ inner_r >= 0
           /\ outer_r - inner_r = width
           /\ (inner_r = 0) <=> (fillet <= Scale \div 2)
           /\ (width = 2 * Scale /\ fillet = (6 * Scale) \div 10) =>
                 /\ 10 * outer_r = 22 * Scale
                 /\ 10 * inner_r = 2 * Scale

\* a completed run with width 2 and fillet 0.6
C11_Witness ==
    /\ RadiiComputed /\ pc = "done" /\ failure = "none" /\ parent # << >>
    /\ width = 2 * Scale /\ fillet = (6 * Scale) \div 10
    /\ 10 * outer_r = 22 * Scale

-----------------------------------------------------------------------------
(* C12 *)

\* C12: a run on an input that meets the preconditions (at least 2 points, no
\* zero-length edge, the wrap-around edge of a closed path included) ends
\* without an exception and with its loops added: two for a closed path, one
\* for an open path.
C12_ValidInputCompletes ==
    (pc = "done" /\ ValidInput)
    => /\ failure = "none"
       /\ Len(parent) = IF closed THEN 2 ELSE 1

-----------------------------------------------------------------------------
(* C13 *)

\* both fillet sequences of a run of pneurouter.py exist
Filleted ==
    /\ variant = "fillet" /\ ValidInput /\ failure = "none"
    /\ pc \in {"assemble", "done"}

\* the raw path turns at vertex i: previous, current and next point are not
\* collinear
RawTurns(i) ==
    LET n == Len(pts)
    IN  Cross(Minus(pts[i], pts[PrevIdx(i, n)]),
              Minus(pts[NextIdx(i, n)], pts[i])) # 0

\* the unit vectors from vertex i to the previous and to the next raw point
ToPrev(i) == UnitDir(pts[i], pts[PrevIdx(i, Len(pts))])
ToNext(i) == UnitDir(pts[i], pts[NextIdx(i, Len(pts))])

\* is_interior at vertex i
InteriorAt(i) == IsInterior(angle_between(ToPrev(i), ToNext(i)))

\* C13: at every vertex with both neighbours where the raw path turns,
\* is_interior is true whichever way the turn goes, and on the left side as
\* on the right side the arc's radius is inner_r clamped to half the shorter
\* adjacent offset edge; is_interior is false (outer_r selected) only where
\* the unit vectors to the previous and the next raw point are exactly
\* opposite.  All vertices of a closed path that turns everywhere (the four
\* corners of a square) get the same is_interior.
C13_TurnsAreInterior ==
    Filleted
    => LET n == Len(pts)
       IN  /\ \A i \in 1 .. n :
                 Filletable(i, n) =>
                    /\ RawTurns(i) =>
                          /\ InteriorAt(i)
                          /\ \A sd \in {<<left_pts, left_loop>>,
                                        <<right_pts, right_loop>>} :
                                /\ HasArc(sd[2], i)
                                /\ ArcRadius(sd, i) =
                                      Min(inner_r,
                                          Min(Distance(sd[1][i], sd[1][PrevIdx(i, n)]),
                                              Distance(sd[1][i], sd[1][NextIdx(i, n)]))
                                              \div 2)
                    /\ ~InteriorAt(i) => ToPrev(i) = Times(-1, ToNext(i))
           /\ (closed /\ \A i \in 1 .. n : RawTurns(i)) =>
                 \A i, j \in 1 .. n : InteriorAt(i) = InteriorAt(j)

\* a closed square whose four corners got arcs of radius inner_r > 0 on both
\* sides
C13_Witness ==
    /\ Filleted /\ pc = "done" /\ closed /\ Len(pts) = 4
    /\ inner_r > 0
    /\ \A i \in 1 .. 4 :
          /\ RawTurns(i)
          /\ ArcRadius(<<left_pts, left_loop>>, i) = inner_r
          /\ ArcRadius(<<right_pts, right_loop>>, i) = inner_r

-----------------------------------------------------------------------------
(* C14 *)

\* C14: a run of the effect that returns has reported a message exactly when
\* it has added no path to the document: a run that adds its loop(s) reports
\* nothing, and a run that reports a message adds nothing.
C14_MessageIffNoOutput ==
    (pc = "done" /\ failure = "none")
    => ((msgs # << >>) <=> (parent = << >>))

-----------------------------------------------------------------------------
(* C15 *)

\* the point an M, L, T, C, S, Q or A command ends on
SvgEndPoint(c) == <<c.args[Len(c.args) - 1], c.args[Len(c.args)]>>

\* the start point of the current subpath after the first k commands: the
\* point of the last MoveTo
RECURSIVE SvgStart(_, _)
SvgStart(path, k) ==
    IF k = 0 THEN <<0, 0>>
    ELSE IF path[k].letter = "M" THEN SvgEndPoint(path[k])
    ELSE SvgStart(path, k - 1)

\* the SVG pen position after the first k commands of an absolute path
RECURSIVE SvgPen(_, _)
SvgPen(path, k) ==
    IF k = 0 THEN <<0, 0>>
    ELSE LET c == path[k]
         IN  IF c.letter = "H" THEN <<c.args[1], SvgPen(path, k - 1)[2]>>
             ELSE IF c.letter = "V" THEN <<SvgPen(path, k - 1)[1], c.args[1]>>
             ELSE IF c.letter = "Z" THEN SvgStart(path, k - 1)
             ELSE SvgEndPoint(c)

\* C15: after any number of commands of an absolute path, current is the SVG
\* pen position (the end point of the last M, L, T, H, V, C, S, Q or A
\* command; the start point of the subpath after a Z), and the point an H
\* command has just yielded is (value, pen.y), that of a V command
\* (pen.x, value), the pen being the one before the command.
C15_CurrentIsPenPosition ==
    (ppc # "idle")
    => /\ current = SvgPen(abs_path, cmd_pos)
       /\ cmd_pos >= 1 =>
             LET c == abs_path[cmd_pos]
                 pen == SvgPen(abs_path, cmd_pos - 1)
             IN  /\ c.letter = "H" => points[Len(points)] = <<c.args[1], pen[2]>>
                 /\ c.letter = "V" => points[Len(points)] = <<pen[1], c.args[1]>>

=============================================================================
